---- MODULE Spec2Model ----
(***************************************************************************)
(* Host-side driver for a CH347/CH34x USB JTAG adapter (src/src/main.rs).  *)
(* The driver is one thread; the USB device and the deadline timer are the *)
(* only other parties.  A blocking call is split at the points where the   *)
(* thread waits for a transfer (block_on).                                 *)
(***************************************************************************)
EXTENDS Integers, Sequences, FiniteSets, TLC

(* ------------------------------ bounds -------------------------------- *)
\* number of driver operations (init, set_speed, send) one run calls
MaxOps == 3
\* longest reply the modelled device delivers to an IN transfer
MaxReply == 4
\* number of commands given to one ClockBuilder
MaxAdds == 2

(* -------------------------- program constants ------------------------- *)
VID_WCH == 6790             \* 0x1A86
PID_55DE == 21982
PID_55DD == 21981
PID_55E8 == 21992
CH34X_VID_PID == {<<VID_WCH, PID_55DE>>, <<VID_WCH, PID_55DD>>, <<VID_WCH, PID_55E8>>}
EPOUT == 6                  \* 0x06
EPIN == 134                 \* 0x86
HandshakeLen == 4           \* RequestBuffer::new(4)
SendBufLen == 64            \* let mut rev = [0; 64]
InitSpeed == 60000          \* self.set_speed(60000)

\* byte values the modelled device puts into a reply: any of ReplyBytes as
\* the last byte, any of FillBytes before it
ReplyBytes == {0, 1, 255}
FillBytes == {0, 1}
\* kHz values a caller passes to set_speed: both tables and two absent values
KhzVals == {468, 937, 1875, 3750, 7500, 15000, 30000, 60000, 0, 1000}
\* n bytes 1, 2, .. (mod 256)
Pattern(n) == [i \in 1..n |-> i % 256]
\* payloads a caller passes to send: the payload of main, one of 255 bytes and
\* one 255 bytes longer than that of main
Payloads == {<<16, 17, 16, 18, 19, 18>>, Pattern(255), Pattern(261)}
\* what list_devices() can enumerate (vendor_id, product_id), in order
DeviceLists ==
  { <<>>,
    << <<VID_WCH, 29987>> >>,
    << <<4660, PID_55DD>>, <<VID_WCH, PID_55E8 + 1>> >>,
    << <<VID_WCH, 29987>>, <<4660, PID_55DD>>, <<VID_WCH, PID_55E8>>,
       <<VID_WCH, PID_55DE>> >> }

(* ------------------------------ values -------------------------------- *)
Ok(v) == [tag |-> "Ok", val |-> v]
UnsupportedSpeed(k) == [tag |-> "UnsupportedSpeed", val |-> k]
TimedOut == [tag |-> "TimedOut", val |-> 0]
IoError == [tag |-> "IoError", val |-> 0]
NoResult == [tag |-> "none", val |-> 0]

\* new_from_selector has not returned
NotCreated == [tag |-> "none", listed |-> FALSE, opens |-> 0, claims |-> 0]

NoXfer == [st |-> "none", dir |-> "-", ep |-> 0, data |-> <<>>, len |-> 0, actual |-> 0]
Completed == {"ok", "err"}

Last(s) == s[Len(s)]
Min(a, b) == IF a < b THEN a ELSE b

\* a reply that fills a request of n bytes
FullReply(n) == [i \in 1..n |-> 1]

\* replies to an IN request of n bytes: the short ones, and one that fills the
\* request; the host controller never delivers more than was requested
Replies(n) ==
  {r \in UNION {[1..k -> ReplyBytes] : k \in 0..Min(n, MaxReply)} :
     \A i \in 1..(Len(r) - 1) : r[i] \in FillBytes}
  \cup {FullReply(n)}

\* byte counts the modelled device accepts of an OUT transfer of len bytes
Accepted(len) == {n \in {0, len - 1, len} : n >= 0}

(* ------------------------- pure functions ----------------------------- *)
is_ch34x_device(d) == d \in CH34X_VID_PID

\* faulty variant: the last matching device is taken
FirstMatch_Last(devs) ==
  IF \E i \in 1..Len(devs) : is_ch34x_device(devs[i])
  THEN CHOOSE i \in 1..Len(devs) :
         /\ is_ch34x_device(devs[i])
         /\ \A j \in (i+1)..Len(devs) : ~is_ch34x_device(devs[j])
  ELSE 0

\* .filter(is_ch34x_device).next(): index of the first matching device, 0 if none
FirstMatch(devs) ==
  IF \E i \in 1..Len(devs) : is_ch34x_device(devs[i])
  THEN CHOOSE i \in 1..Len(devs) :
         /\ is_ch34x_device(devs[i])
         /\ \A j \in 1..(i-1) : ~is_ch34x_device(devs[j])
  ELSE 0

\* faulty variant: the handshake sends the speed-set form with index 0
InitCmd_Zero == <<208, 6, 0, 0, 0, 0, 0, 0, 0>>

InitCmd == <<208, 6, 0, 0, 9, 0, 0, 0, 0>>
SpeedCmd(index) == <<208, 6, 0, 0, index, 0, 0, 0, 0>>

\* faulty variant: the standard table ends at 30000
StandardIndex_EndsAt30000(speed) ==
  CASE speed = 1875 -> Ok(0)
    [] speed = 3750 -> Ok(1)
    [] speed = 7500 -> Ok(2)
    [] speed = 15000 -> Ok(3)
    [] speed = 30000 -> Ok(4)
    [] OTHER -> UnsupportedSpeed(speed)

\* match speed { .. } of the STANDARD_PACK arm
StandardIndex(speed) ==
  CASE speed = 1875 -> Ok(0)
    [] speed = 3750 -> Ok(1)
    [] speed = 7500 -> Ok(2)
    [] speed = 15000 -> Ok(3)
    [] speed = 30000 -> Ok(4)
    [] speed = 60000 -> Ok(5)
    [] OTHER -> UnsupportedSpeed(speed)

\* match speed { .. } of the LARGER_PACK arm
LargerIndex(speed) ==
  CASE speed = 468 -> Ok(0)
    [] speed = 937 -> Ok(1)
    [] speed = 1875 -> Ok(2)
    [] speed = 3750 -> Ok(3)
    [] speed = 7500 -> Ok(4)
    [] speed = 15000 -> Ok(5)
    [] speed = 30000 -> Ok(6)
    [] speed = 60000 -> Ok(7)
    [] OTHER -> UnsupportedSpeed(speed)

\* faulty variant: an unresolved pack mode falls back to the standard table
speed_khz_index_NoneAsStandard(p, speed) ==
  CASE p = "LARGER_PACK" -> LargerIndex(speed)
    [] OTHER -> StandardIndex(speed)

\* faulty variant: every resolved pack mode uses the standard table
speed_khz_index_OneTable(p, speed) ==
  CASE p \in {"STANDARD_PACK", "LARGER_PACK"} -> StandardIndex(speed)
    [] OTHER -> UnsupportedSpeed(speed)

speed_khz_index(p, speed) ==
  CASE p = "STANDARD_PACK" -> StandardIndex(speed)
    [] p = "LARGER_PACK" -> LargerIndex(speed)
    [] OTHER -> UnsupportedSpeed(speed)

\* faulty variant: only the value 0x01 selects the larger pack
PackFromByte_OnlyOne(v) == IF v = 1 THEN "LARGER_PACK" ELSE "STANDARD_PACK"

\* if *val == 0x00 { STANDARD_PACK } else { LARGER_PACK }
PackFromByte(v) == IF v = 0 THEN "STANDARD_PACK" ELSE "LARGER_PACK"

\* faulty variant: the first byte of the reply is tested
Rejected_First(r) == r[1] # 0

\* if *(rev.last().unwrap()) != 0x00 { return Err(..) }
Rejected(r) == Last(r) # 0

\* faulty variant: the length byte is the length modulo 256
Frame_Mod256(buf) == <<210, Len(buf) % 256, 0>> \o buf

\* send: [0xd2, len % 255, 0] ++ buf
Frame(buf) == <<210, Len(buf) % 255, 0>> \o buf

\* buf[..n].copy_from_slice(&comp.data)
\* faulty variant: the buffer becomes the received bytes
CopyIn_Replaces(buf, data) == data

\* buf[..n].copy_from_slice(&comp.data), for n = comp.data.len() <= buf.len()
CopyIn(buf, data) ==
  [i \in 1..Len(buf) |-> IF i <= Len(data) THEN data[i] ELSE buf[i]]

Zeros(n) == [i \in 1..n |-> 0]

(* ------------------------------ encoder ------------------------------- *)
\* enum Command, as one record shape
Clock(tms, tdi, trst, srst) ==
  [kind |-> "Clock", tms |-> tms, tdi |-> tdi, trst |-> trst, srst |-> srst]
Reset(x) ==
  [kind |-> "Reset", tms |-> FALSE, tdi |-> FALSE, trst |-> x, srst |-> FALSE]
Commands ==
  {Clock(a, b, c, d) : a, b, c, d \in BOOLEAN} \cup {Reset(x) : x \in BOOLEAN}

\* u8::from(bool)
U8FromBool(b) == IF b THEN 1 ELSE 0

\* a << n on u8
Shl(a, n) == (a * 2^n) % 256

\* a | b on u8
RECURSIVE BitOr(_, _)
BitOr(a, b) ==
  IF a = 0 THEN b
  ELSE IF b = 0 THEN a
  ELSE (IF a % 2 = 1 \/ b % 2 = 1 THEN 1 ELSE 0) + 2 * BitOr(a \div 2, b \div 2)

\* faulty variant: tdi is put on bit 3
EncodeClock_TdiBit3(tms, tdi, trst, srst) ==
  BitOr(BitOr(BitOr(BitOr(Shl(U8FromBool(tms), 1), Shl(U8FromBool(tdi), 3)),
                    Shl(U8FromBool(trst), 5)),
              Shl(U8FromBool(srst), 6)),
        0)

\* the Command::Clock arm of From<Command> for u8
EncodeClock(tms, tdi, trst, srst) ==
  BitOr(BitOr(BitOr(BitOr(Shl(U8FromBool(tms), 1), Shl(U8FromBool(tdi), 4)),
                    Shl(U8FromBool(trst), 5)),
              Shl(U8FromBool(srst), 6)),
        0)

\* impl From<Command> for u8
encode(c) ==
  IF c.kind = "Reset"
  THEN EncodeClock(TRUE, TRUE, c.trst, FALSE)
  ELSE EncodeClock(c.tms, c.tdi, c.trst, c.srst)

\* faulty variant: the strobed byte is pushed first
add_HighFirst(b, c) == Append(Append(b, BitOr(encode(c), 1)), encode(c))

\* ClockBuilder::add: the buffer after command c is added to buffer b
add(b, c) == Append(Append(b, encode(c)), BitOr(encode(c), 1))

(* ------------------------------- state -------------------------------- *)
VARIABLES
  pc,          \* position of the driver thread
  op,          \* the operation being executed, or the last one executed
  pack,        \* CH34x.pack: "None", "STANDARD_PACK", "LARGER_PACK"
  xfer,        \* the bulk transfer last submitted to the device
  timer,       \* the deadline Timer of write_bulk/read_bulk: off, armed, fired
  log,         \* the transfers the current operation has submitted, in order
  khz,         \* argument of the current set_speed
  ret,         \* what the last set_speed returned
  rev,         \* the reply buffer of the current operation
  wrote,       \* what write_bulk returned to send
  readn,       \* what read_bulk returned to send
  inited,      \* ch347_jtag_init has been called
  nops,        \* operations called so far
  panicMsg,    \* message of the panic that ended the run
  enumerated,  \* what list_devices() returned
  device,      \* index in enumerated of the selected device, 0 if none
  created,     \* what new_from_selector returned, and the opens and claims it made
  payload,     \* argument of the current send
  cb,          \* ClockBuilder.buf
  added        \* the commands given to ClockBuilder::add so far, in order

vars == <<pc, op, pack, xfer, timer, log, khz, ret, rev, wrote, readn,
          inited, nops, panicMsg, enumerated, device, created, payload, cb, added>>

\* the state of the driver and the state of the command builder
driverVars == <<pc, op, pack, xfer, timer, log, khz, ret, rev, wrote, readn,
                inited, nops, panicMsg, enumerated, device, created, payload>>
builderVars == <<cb, added>>

Init ==
  /\ pc = "start"
  /\ op = "none"
  /\ pack = "None"
  /\ xfer = NoXfer
  /\ timer = "off"
  /\ log = <<>>
  /\ khz = 0
  /\ ret = NoResult
  /\ rev = <<>>
  /\ wrote = NoResult
  /\ readn = NoResult
  /\ inited = FALSE
  /\ nops = 0
  /\ panicMsg = ""
  /\ enumerated = <<>>
  /\ device = 0
  /\ created = NotCreated
  /\ payload = <<>>
  /\ cb = <<>>
  /\ added = <<>>

(* ------------------------------ helpers ------------------------------- *)
\* faulty variant: the failure is handed back and the caller goes on
Panic_Returns(msg) == pc' = "idle" /\ panicMsg' = msg

\* panic!: the process ends
Panic(msg) == pc' = "panicked" /\ panicMsg' = msg

\* the operation returns to its caller
Return == pc' = "idle" /\ panicMsg' = panicMsg

\* bulk_out / bulk_in: the transfer is handed to the device; sofar are the
\* transfers the operation has submitted before it
Submit(sofar, dir, ep, data, len) ==
  /\ xfer' = [st |-> "inflight", dir |-> dir, ep |-> ep, data |-> data,
              len |-> len, actual |-> 0]
  /\ log' = Append(sofar, [dir |-> dir, ep |-> ep, data |-> data, len |-> len])

\* the driver takes the completion out of the transfer: the request is over
Take(x) == [NoXfer EXCEPT !.st = "taken", !.dir = x.dir]

\* faulty variant: the transfer outlives the future
Cancel_Leaks(x) == x

\* dropping the transfer future cancels the transfer
Cancel(x) == [x EXCEPT !.st = "cancelled"]

\* faulty variant: the timer is polled first
Or_TimerFirst(x, t) ==
  IF t = "fired" THEN "timer"
  ELSE IF x.st \in Completed THEN "fut"
  ELSE "pending"

\* faulty variant: the transfer is awaited without the deadline
Or_NoDeadline(x, t) == IF x.st \in Completed THEN "fut" ELSE "pending"

\* fut.or(timer): the transfer is polled first, the timer second
Or(x, t) ==
  IF x.st \in Completed THEN "fut"
  ELSE IF t = "fired" THEN "timer"
  ELSE "pending"

\* faulty variant: the completion status of the write is not looked at
write_bulk_fut_IgnoresStatus(x) == Ok(x.actual)

\* the async block of write_bulk, once the transfer has completed
write_bulk_fut(x) == IF x.st = "err" THEN IoError ELSE Ok(x.actual)

\* the async block of read_bulk, once the transfer has completed
read_bulk_fut(x) == IF x.st = "err" THEN IoError ELSE Ok(Len(x.data))

(* ------------------------------ device -------------------------------- *)
\* the device completes the transfer in flight, or reports a failure
TransferComplete ==
  /\ xfer.st = "inflight"
  /\ \/ xfer' = [xfer EXCEPT !.st = "err"]
     \/ /\ xfer.dir = "OUT"
        /\ \E n \in Accepted(xfer.len) : xfer' = [xfer EXCEPT !.st = "ok", !.actual = n]
     \/ /\ xfer.dir = "IN"
        /\ \E r \in Replies(xfer.len) :
             xfer' = [xfer EXCEPT !.st = "ok", !.data = r, !.actual = Len(r)]
  /\ UNCHANGED <<builderVars, created, payload, pc, op, pack, timer, log, khz, ret, rev, wrote, readn,
                 inited, nops, panicMsg, enumerated, device>>

\* Timer::after(timeout) elapses
TimerExpire ==
  /\ timer = "armed"
  /\ timer' = "fired"
  /\ UNCHANGED <<builderVars, created, payload, pc, op, pack, xfer, log, khz, ret, rev, wrote, readn,
                 inited, nops, panicMsg, enumerated, device>>

(* ------------------------------ locator ------------------------------- *)
\* what new_from_selector returns for the enumeration devs (listOk: whether
\* list_devices succeeded) when open, configurations().next() and
\* claim_interface(4) behave as given, with the opens and claims it made
new_from_selector(devs, listOk, openOk, hasConfig, claimOk) ==
  IF ~listOk THEN [tag |-> "Usb", listed |-> FALSE, opens |-> 0, claims |-> 0]
  ELSE IF FirstMatch(devs) = 0
  THEN [tag |-> "NotFound", listed |-> TRUE, opens |-> 0, claims |-> 0]
  ELSE IF ~openOk THEN [tag |-> "Usb", listed |-> TRUE, opens |-> 1, claims |-> 0]
  ELSE IF ~hasConfig THEN [tag |-> "panic", listed |-> TRUE, opens |-> 1, claims |-> 0]
  ELSE IF ~claimOk THEN [tag |-> "Usb", listed |-> TRUE, opens |-> 1, claims |-> 1]
  ELSE [tag |-> "Ok", listed |-> TRUE, opens |-> 1, claims |-> 1]

\* main: CH34x::new_from_selector().expect("Not found ch34x device")
NewFromSelector ==
  /\ pc = "start"
  /\ \E devs \in DeviceLists, listOk, openOk, hasConfig, claimOk \in BOOLEAN :
       LET r == new_from_selector(devs, listOk, openOk, hasConfig, claimOk) IN
       /\ enumerated' = IF listOk THEN devs ELSE <<>>
       /\ device' = IF listOk THEN FirstMatch(devs) ELSE 0
       /\ created' = r
       /\ IF r.tag = "Ok" THEN Return
          ELSE IF r.tag = "panic" THEN Panic("Can get usb device configs")
          ELSE Panic("Not found ch34x device")
  /\ UNCHANGED <<builderVars, payload, op, pack, xfer, timer, log, khz, ret, rev,
                 wrote, readn, inited, nops>>

(* ------------------------------- init --------------------------------- *)
\* ch347_jtag_init is called: the handshake command is submitted
InitCall ==
  /\ pc = "idle" /\ ~inited /\ nops < MaxOps
  /\ op' = "init" /\ inited' = TRUE /\ nops' = nops + 1
  /\ rev' = <<>>
  /\ ret' = NoResult /\ readn' = NoResult
  /\ Submit(<<>>, "OUT", 6, InitCmd, Len(InitCmd))
  /\ payload' = <<>>
  /\ pc' = "init_out"
  /\ UNCHANGED <<builderVars, created, pack, timer, khz, wrote, panicMsg, enumerated, device>>

\* block_on(bulk_out(..)) returns; .expect("Can init Jtag Device"); bulk_in
InitOutDone ==
  /\ pc = "init_out" /\ xfer.st \in Completed
  /\ IF xfer.st = "err"
     THEN /\ Panic("Can init Jtag Device")
          /\ UNCHANGED <<xfer, log>>
     ELSE /\ Submit(log, "IN", EPIN, <<>>, HandshakeLen)
          /\ pc' = "init_in"
          /\ panicMsg' = panicMsg
  /\ UNCHANGED <<builderVars, created, payload, op, pack, timer, khz, ret, rev, wrote, readn, inited,
                 nops, enumerated, device>>

\* block_on(bulk_in(..)) returns; .unwrap(); pack is set; set_speed is entered
InitInDone ==
  /\ pc = "init_in" /\ xfer.st \in Completed
  /\ IF xfer.st = "err"
     THEN /\ Panic("init read unwrap")
          /\ UNCHANGED <<pack, rev, khz>>
     ELSE /\ rev' = xfer.data
          /\ pack' = IF xfer.data # <<>> THEN PackFromByte(Last(xfer.data)) ELSE pack
          /\ khz' = InitSpeed
          /\ pc' = "ss_entry"
          /\ panicMsg' = panicMsg
  /\ xfer' = Take(xfer)
  /\ UNCHANGED <<builderVars, created, payload, op, timer, log, ret, wrote, readn, inited, nops,
                 enumerated, device>>

(* ----------------------------- set_speed ------------------------------ *)
\* a caller calls set_speed(k)
SetSpeedCall ==
  /\ pc = "idle" /\ nops < MaxOps
  /\ \E k \in KhzVals : khz' = k
  /\ op' = "set_speed" /\ nops' = nops + 1
  /\ rev' = <<>>
  /\ ret' = NoResult /\ readn' = NoResult
  /\ log' = <<>>
  /\ payload' = <<>>
  /\ pc' = "ss_entry"
  /\ UNCHANGED <<builderVars, created, pack, xfer, timer, wrote, inited, panicMsg,
                 enumerated, device>>

\* faulty variant: a failed set_speed forgets the pack mode
SetSpeedReturn_Forgets(r) ==
  /\ ret' = r
  /\ pack' = IF r.tag = "Ok" THEN pack ELSE "None"
  /\ IF op = "init" /\ r.tag # "Ok" THEN Panic("Set speed error") ELSE Return

\* set_speed returns r to its caller; ch347_jtag_init expects Ok and returns
SetSpeedReturn(r) ==
  /\ ret' = r
  /\ pack' = pack
  /\ IF op = "init" /\ r.tag # "Ok" THEN Panic("Set speed error") ELSE Return

\* set_speed: the index lookup, then the speed-set command is submitted
SetSpeedEntry ==
  /\ pc = "ss_entry"
  /\ LET r == speed_khz_index(pack, khz) IN
       IF r.tag # "Ok"
       THEN /\ SetSpeedReturn(r)
            /\ UNCHANGED <<xfer, log>>
       ELSE /\ Submit(log, "OUT", EPOUT, SpeedCmd(r.val), Len(SpeedCmd(r.val)))
            /\ pc' = "ss_out"
            /\ UNCHANGED <<ret, pack, panicMsg>>
  /\ rev' = <<>>
  /\ UNCHANGED <<builderVars, created, payload, op, timer, khz, wrote, readn, inited, nops, enumerated,
                 device>>

\* block_on(bulk_out(..)) returns; .unwrap(); bulk_in
SetSpeedOutDone ==
  /\ pc = "ss_out" /\ xfer.st \in Completed
  /\ IF xfer.st = "err"
     THEN /\ Panic("set_speed write unwrap")
          /\ UNCHANGED <<xfer, log>>
     ELSE /\ Submit(log, "IN", EPIN, <<>>, HandshakeLen)
          /\ pc' = "ss_in"
          /\ panicMsg' = panicMsg
  /\ UNCHANGED <<builderVars, created, payload, op, pack, timer, khz, ret, rev, wrote, readn, inited,
                 nops, enumerated, device>>

\* block_on(bulk_in(..)) returns; .unwrap(); the reply's last byte decides
SetSpeedInDone ==
  /\ pc = "ss_in" /\ xfer.st \in Completed
  /\ IF xfer.st = "err"
     THEN /\ Panic("set_speed read unwrap")
          /\ UNCHANGED <<rev, ret, pack>>
     ELSE /\ rev' = xfer.data
          /\ IF xfer.data = <<>>
             THEN /\ Panic("set_speed last unwrap")
                  /\ UNCHANGED <<ret, pack>>
             ELSE IF Rejected(xfer.data)
             THEN SetSpeedReturn(UnsupportedSpeed(khz))
             ELSE SetSpeedReturn(Ok(khz))
  /\ xfer' = Take(xfer)
  /\ UNCHANGED <<builderVars, created, payload, op, timer, log, khz, wrote, readn, inited, nops,
                 enumerated, device>>

(* -------------------------------- send -------------------------------- *)
\* a caller calls send(buf): the frame is built and write_bulk submits it
SendCall ==
  /\ pc = "idle" /\ nops < MaxOps
  /\ op' = "send" /\ nops' = nops + 1
  /\ rev' = Zeros(SendBufLen)
  /\ wrote' = NoResult /\ readn' = NoResult /\ ret' = NoResult
  /\ \E buf \in Payloads :
       /\ payload' = buf
       /\ Submit(<<>>, "OUT", EPOUT, Frame(buf), Len(Frame(buf)))
  /\ timer' = "armed"
  /\ pc' = "send_out"
  /\ UNCHANGED <<builderVars, created, pack, khz, inited, panicMsg, enumerated, device>>

\* write_bulk returns to send: .expect("send error"), then read_bulk submits
WriteBulkPoll ==
  /\ pc = "send_out" /\ Or(xfer, timer) # "pending"
  /\ LET r == IF Or(xfer, timer) = "fut" THEN write_bulk_fut(xfer) ELSE TimedOut IN
       /\ wrote' = r
       /\ IF r.tag = "Ok"
          THEN /\ Submit(log, "IN", EPIN, <<>>, Len(rev))
               /\ timer' = "armed"
               /\ pc' = "send_in"
               /\ panicMsg' = panicMsg
          ELSE /\ xfer' = IF Or(xfer, timer) = "timer" THEN Cancel(xfer) ELSE xfer
               /\ timer' = "off"
               /\ Panic("send error")
               /\ log' = log
  /\ UNCHANGED <<builderVars, created, payload, op, pack, khz, ret, rev, readn, inited, nops, enumerated,
                 device>>

\* read_bulk returns to send: .expect("read error"), then send returns
ReadBulkPoll ==
  /\ pc = "send_in" /\ Or(xfer, timer) # "pending"
  /\ LET r == IF Or(xfer, timer) = "fut" THEN read_bulk_fut(xfer) ELSE TimedOut IN
       /\ readn' = r
       /\ timer' = "off"
       /\ IF r.tag = "Ok"
          THEN /\ rev' = CopyIn(rev, xfer.data)
               /\ xfer' = Take(xfer)
               /\ Return
          ELSE /\ xfer' = IF Or(xfer, timer) = "timer" THEN Cancel(xfer) ELSE xfer
               /\ rev' = rev
               /\ Panic("read error")
  /\ wrote' = NoResult
  /\ UNCHANGED <<builderVars, created, payload, op, pack, log, khz, ret, inited, nops, enumerated,
                 device>>

(* --------------------------- command builder -------------------------- *)
\* ClockBuilder::add is called with one more command
ClockBuilderAdd ==
  /\ Len(added) < MaxAdds
  /\ \E c \in Commands :
       /\ cb' = add(cb, c)
       /\ added' = Append(added, c)
  /\ UNCHANGED driverVars

Next ==
  \/ NewFromSelector
  \/ InitCall
  \/ InitOutDone
  \/ InitInDone
  \/ SetSpeedCall
  \/ SetSpeedEntry
  \/ SetSpeedOutDone
  \/ SetSpeedInDone
  \/ SendCall
  \/ WriteBulkPoll
  \/ ReadBulkPoll
  \/ TransferComplete
  \/ TimerExpire

Spec == Init /\ [][Next]_vars

\* the timer elapses and the driver thread runs whenever it can: block_on
\* parks it only until it is woken.  The device owes nothing, and a caller may
\* stop calling.
LiveSpec ==
  /\ Init /\ [][Next]_vars
  /\ WF_vars(TimerExpire)
  /\ WF_vars(WriteBulkPoll)
  /\ WF_vars(ReadBulkPoll)
  /\ WF_vars(InitOutDone)
  /\ WF_vars(InitInDone)
  /\ WF_vars(SetSpeedEntry)
  /\ WF_vars(SetSpeedOutDone)
  /\ WF_vars(SetSpeedInDone)

(* ============================ properties ============================== *)
\* the speed tables as the interface documents them
StandardTable ==
  (1875 :> 0) @@ (3750 :> 1) @@ (7500 :> 2) @@ (15000 :> 3) @@ (30000 :> 4)
    @@ (60000 :> 5)
LargerTable ==
  (468 :> 0) @@ (937 :> 1) @@ (1875 :> 2) @@ (3750 :> 3) @@ (7500 :> 4)
    @@ (15000 :> 5) @@ (30000 :> 6) @@ (60000 :> 7)
\* the kHz values of the table of pack mode p; none when p is unresolved
ActiveKhz(p) ==
  IF p = "STANDARD_PACK" THEN DOMAIN StandardTable
  ELSE IF p = "LARGER_PACK" THEN DOMAIN LargerTable
  ELSE {}
ActiveIndex(p, k) == IF p = "STANDARD_PACK" THEN StandardTable[k] ELSE LargerTable[k]

OutRec(data) == [dir |-> "OUT", ep |-> 6, data |-> data, len |-> Len(data)]
InRec(n) == [dir |-> "IN", ep |-> 134, data |-> <<>>, len |-> n]
IsPrefix(s, t) == Len(s) <= Len(t) /\ \A i \in 1..Len(s) : s[i] = t[i]

\* C1: whenever pack is None or khz is absent from the table of the current
\* pack mode, set_speed(khz) returns UnsupportedSpeed(khz) and submits no
\* transfer, neither OUT nor IN.
C1_UnsupportedBeforeIO ==
  [][(pc = "ss_entry" /\ khz \notin ActiveKhz(pack))
       => /\ ret' = UnsupportedSpeed(khz)
          /\ log' = log
          /\ xfer' = xfer
          /\ pc' \in {"idle", "panicked"}]_vars

C1_Witness ==
  /\ pc = "idle" /\ op = "set_speed"
  /\ pack = "STANDARD_PACK" /\ khz = 468
  /\ ret = UnsupportedSpeed(468)
  /\ log = <<>>

\* C2: for every khz in the table of the current pack mode, set_speed(khz)
\* writes D0 06 00 00 <index> 00 00 00 00 with the index of that table.
C2_CommandFromActiveTable ==
  [][(pc = "ss_entry" /\ khz \in ActiveKhz(pack))
       => /\ log' = Append(log, OutRec(<<208, 6, 0, 0, ActiveIndex(pack, khz),
                                         0, 0, 0, 0>>))
          /\ xfer'.st = "inflight" /\ xfer'.dir = "OUT"
          /\ xfer'.data = <<208, 6, 0, 0, ActiveIndex(pack, khz), 0, 0, 0, 0>>]_vars

C2_Witness ==
  /\ pc = "ss_out" /\ op = "set_speed"
  /\ pack = "LARGER_PACK" /\ khz = 1875
  /\ Last(log) = OutRec(<<208, 6, 0, 0, 2, 0, 0, 0, 0>>)

\* C3: once the speed-set command is written and a reply is read, set_speed(khz)
\* returns Ok(khz) exactly when the reply's last byte is 0x00 and fails with
\* UnsupportedSpeed(khz) exactly when it is nonzero.
C3_ReplyDecides ==
  [][(pc = "ss_in" /\ xfer.st = "ok" /\ xfer.data # <<>>)
       => /\ khz \in ActiveKhz(pack)
          /\ ret' = IF xfer.data[Len(xfer.data)] = 0
                    THEN Ok(khz) ELSE UnsupportedSpeed(khz)]_vars

C3_Witness ==
  /\ pc = "idle" /\ op = "set_speed"
  /\ Len(rev) = 4 /\ rev[4] = 0 /\ rev[1] # 0
  /\ ret = Ok(khz)

\* C4: pack is None until init's handshake read succeeds, and is then set from
\* the last byte v of the reply: STANDARD_PACK if v = 0, LARGER_PACK otherwise.
C4_PackFromLastByte ==
  /\ (~inited \/ pc \in {"init_out", "init_in"}) => pack = "None"
  /\ (op = "init" /\ pc = "ss_entry" /\ rev # <<>>)
       => pack = IF rev[Len(rev)] = 0 THEN "STANDARD_PACK" ELSE "LARGER_PACK"

C4_Witness ==
  /\ op = "init" /\ pc = "ss_entry"
  /\ Len(rev) = 4 /\ rev[4] = 255
  /\ pack = "LARGER_PACK"

\* C5: once init has set pack to Some(m) it stays Some(m), whatever set_speed
\* and send do afterwards; pack changes only in init's handshake step.
C5_PackImmutable ==
  [][/\ pack # "None" => pack' = pack
     /\ pack' # pack => pc = "init_in"]_vars

C5_Witness ==
  /\ pack = "LARGER_PACK"
  /\ op = "set_speed" /\ pc = "idle"
  /\ ret = UnsupportedSpeed(khz) /\ rev # <<>>

\* C6 as stated: init submits the handshake command, then one 4-byte IN, and
\* no other transfer before it returns.
C6_OnlyHandshake ==
  op = "init" => IsPrefix(log, <<OutRec(<<208, 6, 0, 0, 9, 0, 0, 0, 0>>), InRec(4)>>)

\* the transfers of a complete init when the handshake resolved pack mode p
InitTransfers(p) ==
  <<OutRec(<<208, 6, 0, 0, 9, 0, 0, 0, 0>>), InRec(4),
    OutRec(<<208, 6, 0, 0, IF p = "STANDARD_PACK" THEN 5 ELSE 7, 0, 0, 0, 0>>),
    InRec(4)>>

\* C6 as amended: init submits the handshake command and one 4-byte IN, then
\* the speed-set command for 60000 kHz and one 4-byte IN, in this order, and
\* nothing else; it stops at the first failure and returns only after all four.
C6_HandshakeThenSpeed ==
  op = "init" =>
    /\ IsPrefix(log, InitTransfers(pack))
    /\ Len(log) >= 1
    /\ pc = "init_out" => Len(log) = 1
    /\ pc \in {"init_in", "ss_entry"} => Len(log) = 2
    /\ pc = "ss_out" => Len(log) = 3
    /\ pc \in {"ss_in", "idle"} => Len(log) = 4
    /\ Len(log) > 2 => pack # "None"

C6_Witness ==
  /\ op = "init" /\ pc = "idle"
  /\ log = InitTransfers("LARGER_PACK")
  /\ pack = "LARGER_PACK"

\* C7: if init's write fails no read is submitted; if init's read fails pack
\* is still None; after either failure no operation submits a transfer.
C7_InitFailureTerminal ==
  /\ [](/\ panicMsg = "Can init Jtag Device"
             => log = <<OutRec(<<208, 6, 0, 0, 9, 0, 0, 0, 0>>)>>
        /\ panicMsg = "init read unwrap"
             => /\ pack = "None"
                /\ log = <<OutRec(<<208, 6, 0, 0, 9, 0, 0, 0, 0>>), InRec(4)>>)
  /\ [][(panicMsg = "Can init Jtag Device" \/ panicMsg = "init read unwrap")
          => (log' = log /\ xfer' = xfer /\ pack' = pack)]_vars

C7_Witness ==
  /\ panicMsg = "init read unwrap" /\ pc = "panicked"
  /\ xfer.st = "taken" /\ xfer.dir = "IN"
  /\ Len(log) = 2 /\ pack = "None"

\* C8: a write_bulk or read_bulk whose transfer never completes returns
\* TimedOut once the deadline has fired; the caller is not blocked forever.
C8_TimesOut ==
  /\ (pc = "send_out") ~> (pc # "send_out")
  /\ (pc = "send_in") ~> (pc # "send_in")
  /\ (pc = "send_out" /\ xfer.st = "inflight")
       ~> (xfer.st \in Completed \/ (wrote = TimedOut /\ pc = "panicked"))
  /\ (pc = "send_in" /\ xfer.st = "inflight")
       ~> (xfer.st \in Completed \/ (readn = TimedOut /\ pc = "panicked"))

C8_Witness ==
  /\ op = "send" /\ pc = "panicked" /\ panicMsg = "send error"
  /\ wrote = TimedOut /\ timer = "off"

\* C9: when write_bulk or read_bulk has returned TimedOut its transfer is
\* cancelled, and whenever the driver is not inside a transfer wait no
\* transfer is in flight.
C9_NoTransferOutlivesItsCall ==
  /\ pc \in {"start", "idle", "ss_entry", "panicked"} => xfer.st # "inflight"
  /\ (wrote = TimedOut \/ readn = TimedOut) => xfer.st = "cancelled"

C9_Witness ==
  /\ op = "send" /\ pc = "panicked" /\ panicMsg = "read error"
  /\ readn = TimedOut /\ xfer.st = "cancelled" /\ xfer.dir = "IN"

\* what the race reports for a transfer in state st that moved n bytes
Outcome(st, n) ==
  CASE st = "err" -> IoError
    [] st = "ok" -> Ok(n)
    [] OTHER -> TimedOut

\* C10: write_bulk and read_bulk return IoError for a transfer that completed
\* with a failure status, the actual byte count for one that completed
\* successfully, and TimedOut only for a transfer that had not completed when
\* the deadline had fired; a completed transfer is never reported as TimedOut.
C10_RaceOutcome ==
  [][/\ (pc = "send_out" /\ pc' # "send_out")
          => /\ wrote' = Outcome(xfer.st, xfer.actual)
             /\ wrote' = TimedOut => (xfer.st = "inflight" /\ timer = "fired")
     /\ (pc = "send_in" /\ pc' # "send_in")
          => /\ readn' = Outcome(xfer.st, Len(xfer.data))
             /\ readn' = TimedOut => (xfer.st = "inflight" /\ timer = "fired")]_vars

C10_Witness ==
  /\ op = "send" /\ pc = "send_in"
  /\ wrote.tag = "Ok" /\ wrote.val < Len(log[Len(log) - 1].data)

\* C11: send submits one OUT carrying the frame, then one IN asking for 64
\* bytes, in this order and nothing else; the IN is submitted only once the OUT
\* has completed successfully, and after a failed or timed-out write no IN is
\* submitted.
C11_SendWriteThenRead ==
  /\ [](op = "send" =>
          /\ Len(log) \in {1, 2}
          /\ log[1].dir = "OUT" /\ log[1].ep = 6 /\ log[1].data[1] = 210
          /\ Len(log) = 2 => log[2] = InRec(64)
          /\ pc = "send_out" => Len(log) = 1
          /\ pc \in {"send_in", "idle"} => Len(log) = 2
          /\ panicMsg = "send error" => (Len(log) = 1 /\ wrote.tag # "Ok"))
  /\ [][(pc = "send_out" /\ pc' # "send_out")
          => IF xfer.st = "ok"
             THEN pc' = "send_in" /\ log' = Append(log, InRec(64))
             ELSE pc' = "panicked" /\ log' = log]_vars

C11_Witness ==
  /\ op = "send" /\ pc = "idle"
  /\ Len(log) = 2 /\ log[1].dir = "OUT" /\ log[2].dir = "IN" /\ log[2].len = 64
  /\ readn.tag = "Ok"

\* C12: for a payload of length L the frame send writes is 0xD2, L mod 255,
\* 0x00 and then the payload bytes unchanged and in order: L + 3 bytes, the
\* second one in 0..254.
C12_FrameLayout ==
  (op = "send" /\ log # <<>>) =>
    LET f == log[1].data
        L == Len(payload)
    IN /\ Len(f) = L + 3 /\ log[1].len = L + 3
       /\ f[1] = 210
       /\ f[2] = L - 255 * (L \div 255)
       /\ f[2] \in 0..254
       /\ f[3] = 0
       /\ \A i \in 1..L : f[i + 3] = payload[i]
       /\ pc = "send_out" => xfer.data = f

\* a payload of 261 bytes gets the header of one of 6 bytes
C12_Witness ==
  /\ op = "send" /\ pc = "send_out"
  /\ Len(payload) = 261
  /\ SubSeq(log[1].data, 1, 3) = <<210, 6, 0>>
  /\ Len(log[1].data) = 264

\* C13: a failed or timed-out transfer inside send, or inside a set_speed
\* called after init, is returned to the caller as an error value: it does
\* not end the run.
C13_SteadyStateFailureReturned ==
  op \in {"send", "set_speed"} =>
    panicMsg \notin {"send error", "read error", "set_speed write unwrap",
                     "set_speed read unwrap"}

\* C14: init and set_speed return to their caller by completion, timeout or
\* failure, also when the adapter never completes the OUT transfer or never
\* answers the IN transfer of their handshake.
C14_HandshakeReturns ==
  (pc \in {"init_out", "init_in", "ss_entry", "ss_out", "ss_in"})
    ~> (pc \in {"idle", "panicked"})

\* a ClockBuilder::new() and the adds made on it
EncSpec == Init /\ [][ClockBuilderAdd]_vars

\* C15: after N adds on a new ClockBuilder the buffer has 2N bytes, the pair
\* at (2i, 2i+1) (counted from 0) is (low, low | 0x01) with low the encoding
\* of the i-th command added, in the order added; an add leaves the bytes
\* added before it unchanged.
C15_BuilderPairs ==
  /\ [](/\ Len(cb) = 2 * Len(added)
        /\ \A i \in 1..Len(added) :
             /\ cb[2 * i - 1] = encode(added[i])
             /\ cb[2 * i] = IF cb[2 * i - 1] % 2 = 1
                            THEN cb[2 * i - 1] ELSE cb[2 * i - 1] + 1)
  /\ [][/\ Len(cb') = Len(cb) + 2
        /\ SubSeq(cb', 1, Len(cb)) = cb]_vars

C15_Witness ==
  /\ Len(added) = 2 /\ added[1] # added[2]
  /\ cb = <<encode(added[1]), encode(added[1]) + 1,
            encode(added[2]), encode(added[2]) + 1>>
  /\ cb[1] # cb[3]

\* the bool as a number
Bit(b) == IF b THEN 1 ELSE 0
\* the byte the interface documents for command c
DocumentedByte(c) ==
  IF c.kind = "Clock"
  THEN 2 * Bit(c.tms) + 16 * Bit(c.tdi) + 32 * Bit(c.trst) + 64 * Bit(c.srst)
  ELSE 2 + 16 + 32 * Bit(c.trst)

\* C16: the encoding of Clock{tms, tdi, trst, srst} is
\* 2*tms + 16*tdi + 32*trst + 64*srst, with bits 0, 2, 3 and 7 clear, and
\* Reset(x) encodes as Clock{tms: true, tdi: true, trst: x, srst: false}.
C16_EncodeBits ==
  \A i \in 1..Len(added) :
    LET v == cb[2 * i - 1] IN
    /\ v = DocumentedByte(added[i])
    /\ v % 2 = 0 /\ (v \div 4) % 2 = 0 /\ (v \div 8) % 2 = 0 /\ v < 128
    /\ added[i].kind = "Reset"
         => v = DocumentedByte(Clock(TRUE, TRUE, added[i].trst, FALSE))

C16_Witness ==
  /\ Len(added) = 2
  /\ added[1] = Reset(TRUE) /\ cb[1] = 50
  /\ added[2] = Clock(TRUE, TRUE, TRUE, TRUE) /\ cb[3] = 114

\* C17: when read_bulk succeeds on a buffer of B bytes and the device
\* delivered R bytes, min(R, B) bytes are copied to the front of the buffer,
\* that count is returned and is at most B, and the bytes at and after the
\* count keep their values; on TimedOut or IoError the buffer is unchanged.
C17_ReadCopiesFront ==
  [][(pc = "send_in" /\ pc' # "send_in")
       => LET R == Len(xfer.data)
              B == Len(rev)
          IN IF readn'.tag = "Ok"
             THEN /\ xfer.st = "ok"
                  /\ readn'.val = Min(R, B)
                  /\ readn'.val <= B
                  /\ Len(rev') = B
                  /\ \A i \in 1..B :
                       rev'[i] = IF i <= Min(R, B) THEN xfer.data[i] ELSE rev[i]
             ELSE /\ readn'.tag \in {"TimedOut", "IoError"}
                  /\ rev' = rev]_vars

C17_Witness ==
  /\ op = "send" /\ pc = "idle"
  /\ readn = Ok(3)
  /\ Len(rev) = 64 /\ rev[3] = 255 /\ rev[4] = 0

\* the documented (vendor_id, product_id) pairs
AllowList == {<<6790, 21982>>, <<6790, 21981>>, <<6790, 21992>>}
\* indices of the enumerated devices that are in the allow-list
Matching == {i \in 1..Len(enumerated) : enumerated[i] \in AllowList}

\* C18: new_from_selector takes the first enumerated device whose
\* (vendor_id, product_id) is in the allow-list; it fails with NotFound when
\* none matches and with a USB error when open or claim_interface(4) fails;
\* it opens and claims at most once, and a run in which it produced no handle
\* issues no bulk transfer.
C18_LocateFirstMatch ==
  /\ created.tag = "none" => (pc = "start" /\ xfer = NoXfer /\ log = <<>>)
  /\ created.tag # "none" =>
       /\ created.listed /\ Matching = {} =>
            (created.tag = "NotFound" /\ device = 0 /\ created.opens = 0)
       /\ created.listed /\ Matching # {} =>
            /\ device \in Matching /\ \A j \in Matching : device <= j
            /\ created.tag # "NotFound" /\ created.opens = 1
       /\ created.tag = "NotFound" => (created.listed /\ Matching = {})
       /\ created.opens <= 1 /\ created.claims <= created.opens
       /\ (created.opens = 1 /\ created.claims = 0) => created.tag \in {"Usb", "panic"}
       /\ created.claims = 1 => created.tag \in {"Usb", "Ok"}
       /\ created.tag = "Ok" => (device > 0 /\ created.claims = 1)
       /\ created.tag # "Ok" =>
            (pc = "panicked" /\ xfer = NoXfer /\ log = <<>> /\ nops = 0)

C18_Witness ==
  /\ created.tag = "Ok" /\ Len(enumerated) = 4 /\ device = 3
  /\ enumerated[3] = <<6790, 21992>> /\ enumerated[4] \in AllowList
  /\ nops = 1 /\ xfer.st = "inflight"

\* a transfer is submitted in this step
Submitted == xfer'.st = "inflight" /\ xfer' # xfer

\* C19: over a run the transfers alternate between the endpoints. The first
\* one is an OUT; an IN is submitted only in answer to an OUT that completed
\* successfully, and that is the next thing that happens to such an OUT; an
\* OUT is submitted only when no transfer was made yet or the IN before it was
\* received; no transfer is submitted while another is in flight.
C19_Alternation ==
  /\ [][Submitted =>
          /\ xfer.st # "inflight"
          /\ xfer'.dir \in {"OUT", "IN"}
          /\ xfer'.dir = "OUT" =>
               /\ xfer'.ep = 6
               /\ xfer.st = "none" \/ (xfer.dir = "IN" /\ xfer.st = "taken")
          /\ xfer'.dir = "IN" =>
               /\ xfer'.ep = 134
               /\ xfer.dir = "OUT" /\ xfer.st = "ok"]_vars
  /\ [][(xfer.dir = "OUT" /\ xfer.st = "ok" /\ xfer' # xfer)
          => (xfer'.dir = "IN" /\ xfer'.st = "inflight")]_vars
  /\ [][(xfer.st = "none" /\ xfer' # xfer)
          => (xfer'.dir = "OUT" /\ xfer'.st = "inflight")]_vars

C19_Witness ==
  /\ nops = 3 /\ op = "send" /\ pc = "send_in"
  /\ xfer.dir = "IN" /\ xfer.st = "inflight"
  /\ Len(log) = 2 /\ log[1].dir = "OUT"

\* the speed-set command with index byte n
SpeedSetRec(n) == OutRec(<<208, 6, 0, 0, n, 0, 0, 0, 0>>)

\* C20: the set_speed(60000) that ch347_jtag_init makes after the handshake
\* finds its index whenever the handshake reply had a byte: it writes index 5
\* when the last byte was 0x00 and index 7 otherwise. Only with an empty reply
\* is the pack mode still None; then the request fails with
\* UnsupportedSpeed(60000), no transfer is made, and init fails.
C20_InitSpeedRequest ==
  /\ [][(op = "init" /\ pc = "ss_entry" /\ pc' # "ss_entry")
          => /\ khz = 60000
             /\ IF rev # <<>>
                THEN /\ pack = IF Last(rev) = 0 THEN "STANDARD_PACK" ELSE "LARGER_PACK"
                     /\ pc' = "ss_out"
                     /\ log' = Append(log, SpeedSetRec(IF Last(rev) = 0 THEN 5 ELSE 7))
                     /\ xfer'.st = "inflight" /\ xfer'.dir = "OUT"
                     /\ xfer'.data = Last(log').data
                     /\ ret' = NoResult /\ panicMsg' = panicMsg
                ELSE /\ pack = "None"
                     /\ ret' = UnsupportedSpeed(60000)
                     /\ xfer' = xfer /\ log' = log
                     /\ pc' = "panicked" /\ panicMsg' = "Set speed error"]_vars
  /\ []((op = "init" /\ pc \in {"ss_out", "ss_in", "idle"}) => pack # "None")

C20_Witness ==
  /\ op = "init" /\ pc = "panicked" /\ panicMsg = "Set speed error"
  /\ pack = "None" /\ ret = UnsupportedSpeed(60000)
  /\ Len(log) = 2 /\ log[2] = InRec(4) /\ xfer.st = "taken"
====
